---- MODULE Spec2Model ----
(***************************************************************************)
(* A model of recursive_crawler/recursive_crawler.py: the RecursiveCrawler *)
(* class (crawl, _process_url, _get_page, _get_proxy, _write_page,         *)
(* _sanitize_url), the ThreadPoolExecutor it drives, the signal handler    *)
(* that sets shutdown_event, and the output directory that survives from   *)
(* one run to the next.                                                    *)
(*                                                                         *)
(* A URL, a raw href and a file name are sequences of tokens; every token  *)
(* stands for a fixed piece of text ("https", ":", "//", "h", "/s", ...),  *)
(* so that prefix tests, "://" splitting, percent-encoding and urljoin are *)
(* computed on the text and not assumed.                                   *)
(***************************************************************************)
EXTENDS Integers, Sequences, FiniteSets, TLC

\* ------------------------------------------------------------------ bounds
MaxRetriesBound == 1

\* ------------------------------------------------------- text and helpers
Range(s) == {s[i] : i \in 1..Len(s)}

Front(s) == SubSeq(s, 1, Len(s) - 1)

\* str.startswith
startswith(u, p) == Len(u) >= Len(p) /\ SubSeq(u, 1, Len(p)) = p

\* tokens whose text contains the substring "http"
HttpTokens == {"https", "http", "/http"}

\* tokens whose text begins with one "/" (one path segment each)
PathTokens == {"/s", "/a", "/b", "/o", "/http"}

\* the test  'http' in link  of _process_url
HasHttp(link) == \E i \in 1..Len(link) : link[i] \in HttpTokens

\* the URLs and hrefs of the modelled web
S == <<"https", ":", "//", "h", "/s">>
A == S \o <<"/a">>
B == S \o <<"/b">>
X == S \o <<"-x">>
O == <<"https", ":", "//", "h", "/o">>
Shttp == <<"http", ":", "//", "h", "/s">>
hrefAbsPathB == <<"/s", "/b">>
hrefRelB == <<"b">>
hrefHttpSeg == <<"/s", "/http">>
hrefBad == <<"//", "[">>

\* urllib.parse.urljoin raises ValueError("Invalid IPv6 URL") on a
\* network-path reference whose authority has an unbalanced bracket
urljoinRaises(link) == Len(link) > 0 /\ link[1] = "//" /\ "[" \in Range(link)

RECURSIVE DropLastSegment(_)
DropLastSegment(base) ==
    IF Len(base) <= 4 THEN base
    ELSE IF base[Len(base)] \in PathTokens THEN Front(base)
    ELSE DropLastSegment(Front(base))

\* a relative first segment "a" becomes the path segment "/a"
Segment(tok) == CASE tok = "a" -> "/a" [] tok = "b" -> "/b" [] OTHER -> tok

\* urllib.parse.urljoin(base, link) for a link without a scheme
urljoin(base, link) ==
    IF Len(link) = 0 THEN base
    ELSE IF link[1] = "//" THEN <<base[1], ":">> \o link
    ELSE IF link[1] \in PathTokens THEN SubSeq(base, 1, 4) \o link
    ELSE DropLastSegment(base) \o <<Segment(link[1])>> \o Tail(link)

\* lines 284-287: relative links are joined, links holding "http" are kept
Resolve(url, link) == IF ~HasHttp(link) THEN urljoin(url, link) ELSE link

\* urllib.parse.quote(text, safe=""): every reserved character is encoded
quote(tok) ==
    CASE tok = ":" -> "%3A"
      [] tok = "//" -> "%2F%2F"
      [] tok = "/s" -> "%2Fs"
      [] tok = "/a" -> "%2Fa"
      [] tok = "/b" -> "%2Fb"
      [] tok = "/o" -> "%2Fo"
      [] tok = "/http" -> "%2Fhttp"
      [] tok = "[" -> "%5B"
      [] OTHER -> tok

AfterSchemeHostOnly(url) == <<"h">>

\* url.split("://", 1)[-1]: the text after the first "://", else all of it
AfterScheme(url) ==
    LET I == {i \in 1..(Len(url) - 1) : url[i] = ":" /\ url[i + 1] = "//"}
    IN IF I = {} THEN url
       ELSE LET i == CHOOSE j \in I : \A k \in I : j <= k
            IN SubSeq(url, i + 2, Len(url))

_sanitize_url(url) ==
    LET text == AfterScheme(url)
    IN [i \in 1..Len(text) |-> quote(text[i])]

\* ------------------------------------------------------------ environment
\* A page is its body: empty text, or markup with the hrefs of its <a> tags.
Page(hrefs) == [empty |-> FALSE, links |-> hrefs]
EmptyPage == [empty |-> TRUE, links |-> {}]

\* every text a link of the modelled web can resolve to
URLs == {S, A, B, X, O, hrefHttpSeg}

\* a tree with a back link, a relative link, an absolute-path link, an
\* out-of-scope link, a relative link holding "http" and a sibling that only
\* shares the prefix
SiteTree == [u \in URLs |->
    CASE u = S -> Page({A, hrefAbsPathB, O})
      [] u = A -> Page({S, hrefRelB, X})
      [] u = B -> Page({X, hrefHttpSeg})
      [] OTHER -> Page({})]

\* two children fetched side by side, one of them with an empty body
SitePair == [u \in URLs |->
    CASE u = S -> Page({A, B})
      [] u = A -> EmptyPage
      [] u = B -> Page({S})
      [] OTHER -> Page({})]

\* a page with a malformed href next to a good one
SiteBad == [u \in URLs |->
    CASE u = S -> Page({A, hrefBad})
      [] OTHER -> Page({})]

\* the contents of the proxy file, or none
ProxyFiles == {{}, {"p1", "p2"}}

\* the runs that are explored: the site, the proxy file, max_retries, and
\* whether the program is started a second time on the same directory
Configs ==
    {[site |-> SiteTree, proxy_file |-> {}, max_retries |-> 0, again |-> TRUE]}
    \cup {[site |-> SitePair, proxy_file |-> {"p1", "p2"}, max_retries |-> r,
           again |-> FALSE] : r \in 0..MaxRetriesBound}
    \cup {[site |-> SiteBad, proxy_file |-> f, max_retries |-> r,
           again |-> TRUE] : f \in ProxyFiles, r \in 0..MaxRetriesBound}

start_url == S
max_threads == 2
Workers == 1..max_threads
NoWorker == 0
NoProxy == "none"
NoUrl == <<>>

\* what one session.get can do
Outcomes == {"200", "non200", "exc"}

VARIABLES
    \* input of the run and the world around it
    site, proxy_file, max_retries, again, disk, run,
    \* RecursiveCrawler attributes
    existing_files, crawled_urls, pending_urls, proxies, invalid_proxies,
    shutdown_event, urls_lock, proxy_lock,
    \* crawl(): position, frontier, futures of the batch, as_completed
    mpc, urls_to_process, futures, yielded, cur, gen,
    \* one _process_url task per worker thread
    wpc, wurl, attempt, wproxy, page, todo, new_urls,
    \* history of the run
    claimed, started, hist, writes, write_failed, failed_proxies,
    late_gets, gen_at_shutdown, prior_shutdown, dispatched, saved

config == <<site, proxy_file, max_retries, again>>
crawler == <<existing_files, crawled_urls, pending_urls, proxies,
             invalid_proxies, shutdown_event, urls_lock, proxy_lock>>
mainv == <<mpc, urls_to_process, futures, yielded, cur, gen>>
workerv == <<wpc, wurl, attempt, wproxy, page, todo, new_urls>>
history == <<claimed, started, hist, writes, write_failed, failed_proxies,
             late_gets, gen_at_shutdown, prior_shutdown, dispatched,
             saved>>
vars == <<config, disk, run, crawler, mainv, workerv, history>>

\* the output directory the first run finds: empty, or left by a crawl of
\* the same site over http (the files, and the URLs they are the pages of)
Directories ==
    {[files |-> {}, of |-> {}],
     [files |-> {_sanitize_url(Shttp)}, of |-> {Shttp}]}

\* __init__: the attributes of a fresh crawler over the directory `files`
Construct(files) ==
    /\ existing_files = files
    /\ crawled_urls = {}
    /\ pending_urls = {}
    /\ proxies = proxy_file
    /\ invalid_proxies = {}
    /\ shutdown_event = FALSE
    /\ urls_lock = NoWorker
    /\ proxy_lock = NoWorker
    /\ mpc = "crawl"
    /\ urls_to_process = {}
    /\ futures = <<>>
    /\ yielded = {}
    /\ cur = NoUrl
    /\ gen = 0
    /\ wpc = [w \in Workers |-> "idle"]
    /\ wurl = [w \in Workers |-> NoUrl]
    /\ attempt = [w \in Workers |-> 0]
    /\ wproxy = [w \in Workers |-> NoProxy]
    /\ page = [w \in Workers |-> EmptyPage]
    /\ todo = [w \in Workers |-> {}]
    /\ new_urls = [w \in Workers |-> {}]
    /\ claimed = [u \in URLs |-> 0]
    /\ started = [u \in URLs |-> 0]
    /\ hist = [u \in URLs |-> <<>>]
    /\ writes = [u \in URLs |-> 0]
    /\ write_failed = {}
    /\ failed_proxies = {}
    /\ late_gets = [w \in Workers |-> 0]
    /\ gen_at_shutdown = -1
    /\ dispatched = [u \in URLs |-> 0]

Init ==
    /\ \E c \in Configs :
          /\ site = c.site
          /\ proxy_file = c.proxy_file
          /\ max_retries = c.max_retries
          /\ again = c.again
    /\ \E d \in Directories :
          /\ disk = d.files
          /\ saved = d.of
    /\ run = "first"
    /\ prior_shutdown = FALSE
    /\ Construct(disk)

\* ------------------------------------------------------------- futures
NewFuture == [state |-> "pending", exc |-> FALSE, urls |-> {}, late |-> FALSE]

Unfinished == {u \in DOMAIN futures : futures[u].state \in {"pending", "running"}}

Finished == {u \in DOMAIN futures : futures[u].state \in {"done", "cancelled"}}

\* ------------------------------------------------------ crawl(), line 304
\* line 308: the frontier starts as the start URL
CrawlEnter ==
    /\ mpc = "crawl"
    /\ urls_to_process' = {start_url}
    /\ mpc' = "m314"
    /\ UNCHANGED <<config, disk, run, crawler, futures, yielded, cur, gen,
                   workerv, history>>

\* line 314 without the test of the flag
LoopConditionNoFlag(frontier, flag) == frontier # {}

\* line 314: while urls_to_process and not self.shutdown_event.is_set()
LoopCondition(frontier, flag) == frontier # {} /\ ~flag

LoopCheck ==
    /\ mpc = "m314"
    /\ mpc' = IF LoopCondition(urls_to_process, shutdown_event)
              THEN "m319" ELSE "exit"
    /\ UNCHANGED <<config, disk, run, crawler, urls_to_process, futures,
                   yielded, cur, gen, workerv, history>>

\* lines 319-325: one future per URL of the frontier, frontier cleared
Submit ==
    /\ mpc = "m319"
    /\ futures' = [u \in urls_to_process |-> NewFuture]
    /\ urls_to_process' = {}
    /\ yielded' = {}
    /\ gen' = gen + 1
    /\ mpc' = "m328"
    /\ dispatched' = [u \in URLs |-> IF u \in urls_to_process
                                      THEN dispatched[u] + 1
                                      ELSE dispatched[u]]
    /\ UNCHANGED <<config, disk, run, crawler, cur, workerv, claimed,
                   started, hist, writes, write_failed, failed_proxies,
                   late_gets, gen_at_shutdown, prior_shutdown, saved>>

AllYieldedAfterFirst(y, fs) == y # {}

\* line 328: the iteration of as_completed(futures) ends when every future
\* of the batch was handed out
AllYielded(y, fs) == y = DOMAIN fs

\* line 328: as_completed hands out each finished future once, in the order
\* of completion, and ends when all were handed out
AsCompleted ==
    /\ mpc = "m328"
    /\ IF AllYielded(yielded, futures)
       THEN /\ mpc' = "m344"
            /\ UNCHANGED <<yielded, cur>>
       ELSE \E u \in Finished \ yielded :
               /\ cur' = u
               /\ yielded' = yielded \cup {u}
               /\ mpc' = "m329"
    /\ UNCHANGED <<config, disk, run, crawler, urls_to_process, futures, gen,
                   workerv, history>>

\* lines 329-334: on shutdown cancel what has not started and leave the loop
CheckShutdown ==
    /\ mpc = "m329"
    /\ IF shutdown_event
       THEN /\ futures' = [u \in DOMAIN futures |->
                    IF futures[u].state = "pending"
                    THEN [futures[u] EXCEPT !.state = "cancelled"]
                    ELSE futures[u]]
            /\ cur' = NoUrl
            /\ mpc' = "m344"
       ELSE /\ mpc' = "m337"
            /\ UNCHANGED <<futures, cur>>
    /\ UNCHANGED <<config, disk, run, crawler, urls_to_process, yielded, gen,
                   workerv, history>>

\* lines 336-342: the delta of the future joins the next frontier; an
\* exception of the task is logged
CollectResult ==
    /\ mpc = "m337"
    /\ urls_to_process' =
          IF ~futures[cur].exc /\ futures[cur].urls # {} /\ ~shutdown_event
          THEN urls_to_process \cup futures[cur].urls
          ELSE urls_to_process
    /\ cur' = NoUrl
    /\ mpc' = "m328"
    /\ UNCHANGED <<config, disk, run, crawler, futures, yielded, gen,
                   workerv, history>>

\* lines 344-358: the batch summary reads the sets under urls_lock
BatchCompleted ==
    /\ mpc = "m344"
    /\ shutdown_event \/ urls_lock = NoWorker
    /\ mpc' = "m314"
    /\ UNCHANGED <<config, disk, run, crawler, urls_to_process, futures,
                   yielded, cur, gen, workerv, history>>

\* leaving the with block joins the pool: queued tasks still run, and
\* crawl() returns when every worker thread has ended
ExecutorExit ==
    /\ mpc = "exit"
    /\ Unfinished = {}
    /\ \A w \in Workers : wpc[w] = "idle"
    /\ mpc' = "done"
    /\ UNCHANGED <<config, disk, run, crawler, urls_to_process, futures,
                   yielded, cur, gen, workerv, history>>

\* signal_handler: SIGINT or SIGTERM sets the flag, at any moment
SignalHandler ==
    /\ mpc # "done"
    /\ ~shutdown_event
    /\ shutdown_event' = TRUE
    /\ gen_at_shutdown' = IF mpc \in {"m328", "m329", "m337"} THEN gen ELSE -1
    /\ UNCHANGED <<config, disk, run, existing_files, crawled_urls,
                   pending_urls, proxies, invalid_proxies, urls_lock, proxy_lock,
                   mainv,
                   workerv, claimed, started, hist, writes, write_failed,
                   failed_proxies, late_gets, prior_shutdown,
                   dispatched, saved>>

\* --------------------------------------------- _process_url, one per task
SiteOf(u) == IF u \in DOMAIN site THEN site[u] ELSE Page({})

\* the task of worker w returns (or raises): its future is done, the
\* thread is free again
Finish(w, raised, delta) ==
    /\ futures' = [futures EXCEPT ![wurl[w]] =
                      [state |-> "done", exc |-> raised, urls |-> delta,
                       late |-> shutdown_event]]
    /\ wpc' = [wpc EXCEPT ![w] = "idle"]
    /\ wurl' = [wurl EXCEPT ![w] = NoUrl]
    /\ attempt' = [attempt EXCEPT ![w] = 0]
    /\ wproxy' = [wproxy EXCEPT ![w] = NoProxy]
    /\ page' = [page EXCEPT ![w] = EmptyPage]
    /\ todo' = [todo EXCEPT ![w] = {}]
    /\ new_urls' = [new_urls EXCEPT ![w] = {}]

Goto(w, label) == wpc' = [wpc EXCEPT ![w] = label]

\* a free worker thread takes a queued task
TaskStart(w) ==
    /\ wpc[w] = "idle"
    /\ \E u \in DOMAIN futures :
          /\ futures[u].state = "pending"
          /\ futures' = [futures EXCEPT ![u].state = "running"]
          /\ wurl' = [wurl EXCEPT ![w] = u]
    /\ Goto(w, "p243")
    /\ UNCHANGED <<config, disk, run, crawler, mpc, urls_to_process, yielded,
                   cur, gen, attempt, wproxy, page, todo, new_urls, history>>

\* lines 243-244
ProcessUrlEntry(w) ==
    /\ wpc[w] = "p243"
    /\ IF shutdown_event
       THEN Finish(w, FALSE, {})
       ELSE /\ Goto(w, "p247")
            /\ UNCHANGED <<futures, wurl, attempt, wproxy, page, todo, new_urls>>
    /\ UNCHANGED <<config, disk, run, crawler, mpc, urls_to_process, yielded,
                   cur, gen, history>>

\* lines 248-251 without the test against existing_files
ClaimOKIgnoringFiles(url, crawled, existing) == ~(url \in crawled)

\* lines 248-251: the URL may be claimed
ClaimOK(url, crawled, existing) ==
    ~(url \in crawled \/ _sanitize_url(url) \in existing)

\* line 254 left out: the claimed URL is not recorded
AddCrawledForgotten(crawled, url) == crawled

\* line 254
AddCrawled(crawled, url) == crawled \cup {url}

\* lines 247-254, one critical section of urls_lock
Claim(w) ==
    /\ wpc[w] = "p247"
    /\ urls_lock = NoWorker
    /\ IF ClaimOK(wurl[w], crawled_urls, existing_files)
       THEN /\ crawled_urls' = AddCrawled(crawled_urls, wurl[w])
            /\ claimed' = [claimed EXCEPT ![wurl[w]] = @ + 1]
            /\ Goto(w, "g196")
            /\ UNCHANGED <<futures, wurl, attempt, wproxy, page, todo, new_urls>>
       ELSE /\ Finish(w, FALSE, {})
            /\ UNCHANGED <<crawled_urls, claimed>>
    /\ UNCHANGED <<config, disk, run, existing_files, pending_urls, proxies,
                   invalid_proxies, shutdown_event, urls_lock, proxy_lock,
                   mpc, urls_to_process, yielded, cur, gen, started, hist, writes,
                   write_failed, failed_proxies, late_gets, gen_at_shutdown,
                   prior_shutdown,
                   dispatched, saved>>

\* lines 196-197 left out: an attempt does not look at the flag
SeenAtAttemptNever(flag) == FALSE

\* lines 196-197: the flag as seen at the top of an attempt
SeenAtAttempt(flag) == flag

\* lines 195-197: top of one attempt of _get_page
GetPageCheck(w) ==
    /\ wpc[w] = "g196"
    /\ started' = IF attempt[w] = 0
                  THEN [started EXCEPT ![wurl[w]] = @ + 1] ELSE started
    /\ IF SeenAtAttempt(shutdown_event)
       THEN Finish(w, FALSE, {})
       ELSE /\ Goto(w, "g199")
            /\ UNCHANGED <<futures, wurl, attempt, wproxy, page, todo, new_urls>>
    /\ UNCHANGED <<config, disk, run, crawler, mpc, urls_to_process, yielded,
                   cur, gen, claimed, hist, writes, write_failed,
                   failed_proxies, late_gets, gen_at_shutdown, prior_shutdown,
                   dispatched, saved>>

\* lines 162-168: random.choice over the trusted set, None when it is empty
ProxyChoices(trusted) == IF trusted # {} THEN trusted ELSE {NoProxy}

\* line 199 calls _get_proxy, which takes proxy_lock at line 162
AcquireProxyLock(w) ==
    /\ wpc[w] = "g199"
    /\ proxy_lock = NoWorker
    /\ proxy_lock' = w
    /\ Goto(w, "g163")
    /\ UNCHANGED <<config, disk, run, existing_files, crawled_urls,
                   pending_urls, proxies, invalid_proxies, shutdown_event,
                   urls_lock, mainv, wurl, attempt, wproxy, page, todo,
                   new_urls, history>>

\* lines 163-168: the choice, and the return that leaves the with block
GetProxy(w) ==
    /\ wpc[w] = "g163"
    /\ \E p \in ProxyChoices(proxies) : wproxy' = [wproxy EXCEPT ![w] = p]
    /\ proxy_lock' = NoWorker
    /\ Goto(w, "g206")
    /\ UNCHANGED <<config, disk, run, existing_files, crawled_urls,
                   pending_urls, proxies, invalid_proxies, shutdown_event,
                   urls_lock, mainv, wurl, attempt, page, todo, new_urls,
                   history>>

\* lines 209-219 with a status other than 200 raised as an exception
AfterResponseRaiseForStatus(o) ==
    CASE o = "200" -> "text"
      [] o = "non200" -> "except"
      [] o = "exc" -> "except"

\* lines 209-219: what _get_page does with the outcome of session.get
AfterResponse(o) ==
    CASE o = "200" -> "text"
      [] o = "non200" -> "none"
      [] o = "exc" -> "except"

\* lines 206-219: the GET and what comes back: 200, another status, or a
\* transport exception
SessionGet(w) ==
    /\ wpc[w] = "g206"
    /\ late_gets' = IF shutdown_event
                    THEN [late_gets EXCEPT ![w] = @ + 1] ELSE late_gets
    /\ \E o \in Outcomes :
          /\ hist' = [hist EXCEPT ![wurl[w]] = Append(@, o)]
          /\ CASE AfterResponse(o) = "text" ->
                   \* line 259: an empty body counts as no page
                   /\ IF SiteOf(wurl[w]).empty
                      THEN Finish(w, FALSE, {})
                      ELSE /\ page' = [page EXCEPT ![w] = SiteOf(wurl[w])]
                           /\ Goto(w, "w145")
                           /\ UNCHANGED <<futures, wurl, attempt, wproxy,
                                          todo, new_urls>>
                   /\ UNCHANGED failed_proxies
               [] AfterResponse(o) = "none" ->
                   /\ Finish(w, FALSE, {})
                   /\ UNCHANGED failed_proxies
               [] AfterResponse(o) = "except" ->
                   /\ failed_proxies' = IF wproxy[w] # NoProxy
                                        THEN failed_proxies \cup {wproxy[w]}
                                        ELSE failed_proxies
                   /\ Goto(w, "g219")
                   /\ UNCHANGED <<futures, wurl, attempt, wproxy, page, todo,
                                  new_urls>>
    /\ UNCHANGED <<config, disk, run, crawler, mpc, urls_to_process, yielded,
                   cur, gen, claimed, started, writes, write_failed,
                   gen_at_shutdown, prior_shutdown,
                   dispatched, saved>>

\* line 223 giving up one attempt early
ExhaustedOneEarly(n, retries) == n >= retries - 1

\* line 223
Exhausted(n, retries) == n = retries

DistrustKeeping(trusted, p) == trusted

\* line 231: proxies.discard(proxy)
Distrust(trusted, p) == trusted \ {p}

\* lines 219-229: give up after the last attempt; else, when the attempt
\* went through a proxy, take proxy_lock to drop it; else go round again
HandleException(w) ==
    /\ wpc[w] = "g219"
    /\ IF Exhausted(attempt[w], max_retries)
       THEN /\ Finish(w, FALSE, {})
            /\ UNCHANGED proxy_lock
       ELSE IF wproxy[w] # NoProxy
            THEN /\ proxy_lock = NoWorker
                 /\ proxy_lock' = w
                 /\ Goto(w, "g230")
                 /\ UNCHANGED <<futures, wurl, attempt, wproxy, page, todo,
                                new_urls>>
            ELSE /\ attempt' = [attempt EXCEPT ![w] = @ + 1]
                 /\ Goto(w, "g196")
                 /\ UNCHANGED <<proxy_lock, futures, wurl, wproxy, page, todo,
                                new_urls>>
    /\ UNCHANGED <<config, disk, run, existing_files, crawled_urls,
                   pending_urls, proxies, invalid_proxies, shutdown_event,
                   urls_lock, mpc, urls_to_process, yielded, cur, gen,
                   history>>

HeldAfterRemoval(w) == w

\* line 232: the end of the with block of line 229 gives proxy_lock back
ReleasedAfterRemoval(w) == NoWorker

\* lines 230-232 under proxy_lock, then the next round of the loop
RemoveProxy(w) ==
    /\ wpc[w] = "g230"
    /\ invalid_proxies' = invalid_proxies \cup {wproxy[w]}
    /\ proxies' = Distrust(proxies, wproxy[w])
    /\ proxy_lock' = ReleasedAfterRemoval(w)
    /\ attempt' = [attempt EXCEPT ![w] = @ + 1]
    /\ wproxy' = [wproxy EXCEPT ![w] = NoProxy]
    /\ Goto(w, "g196")
    /\ UNCHANGED <<config, disk, run, existing_files, crawled_urls,
                   pending_urls, shutdown_event, urls_lock, mainv, wurl, page,
                   todo, new_urls, history>>

\* what lines 149-154 can do: the file is there afterwards (written, or
\* left partial by a failing write()), or open() failed and there is none
WriteOutcomes == {"file", "nofile"}

WriteRaisesOnFailure(r) == r = "nofile"

\* lines 149-154: the except clause catches what open() and write() raise
WriteRaises(r) == FALSE

\* lines 138-154 called from line 264
WritePage(w) ==
    /\ wpc[w] = "w145"
    /\ IF shutdown_event
       THEN /\ Goto(w, "p278")
            /\ UNCHANGED <<disk, writes, write_failed, saved, futures, wurl,
                           attempt, wproxy, page, todo, new_urls>>
       ELSE \E r \in WriteOutcomes :
               /\ writes' = [writes EXCEPT ![wurl[w]] = @ + 1]
               /\ disk' = IF r = "nofile" THEN disk
                          ELSE disk \cup {_sanitize_url(wurl[w])}
               /\ write_failed' = IF r = "file" THEN write_failed
                                  ELSE write_failed \cup {wurl[w]}
               /\ saved' = IF r = "nofile" THEN saved
                           ELSE saved \cup {wurl[w]}
               /\ IF WriteRaises(r)
                  THEN Finish(w, TRUE, {})
                  ELSE /\ Goto(w, "p278")
                       /\ UNCHANGED <<futures, wurl, attempt, wproxy, page,
                                      todo, new_urls>>
    /\ UNCHANGED <<config, run, crawler, mpc, urls_to_process, yielded, cur,
                   gen, claimed, started, hist, failed_proxies, late_gets,
                   gen_at_shutdown, prior_shutdown, dispatched>>

\* line 289 as a test of scheme and host instead of the text prefix
InScopeSameHost(url) ==
    Len(url) >= 4 /\ SubSeq(url, 1, 4) = SubSeq(start_url, 1, 4)

\* line 289
InScope(url) == startswith(url, start_url)

IsNewIgnoringPending(url, crawled, pending) == url \notin crawled

\* lines 294-297
IsNew(url, crawled, pending) == url \notin crawled /\ url \notin pending

\* lines 267-278: the hrefs of the page, then urls_lock is taken for the
\* whole loop over them
AcquireLinks(w) ==
    /\ wpc[w] = "p278"
    /\ urls_lock = NoWorker
    /\ IF page[w].links = {}
       THEN /\ Finish(w, FALSE, {})
            /\ UNCHANGED urls_lock
       ELSE /\ urls_lock' = w
            /\ todo' = [todo EXCEPT ![w] = page[w].links]
            /\ Goto(w, "p279")
            /\ UNCHANGED <<futures, wurl, attempt, wproxy, page, new_urls>>
    /\ UNCHANGED <<config, disk, run, existing_files, crawled_urls,
                   pending_urls, proxies, invalid_proxies, shutdown_event,
                   proxy_lock, mpc, urls_to_process, yielded, cur, gen,
                   history>>

HeldAfterRaise(w) == w

\* line 278: the `with` block gives the lock back when an exception leaves it
ReleasedAfterRaise(w) == NoWorker

\* lines 279-299, one link of the set (in the set's order, which is any):
\* break on shutdown; urljoin may raise, which ends the task with the
\* exception; an in-scope URL that is new becomes pending and part of the
\* delta. After the last link the lock is released and the delta returned.
LinkStep(w) ==
    /\ wpc[w] = "p279"
    /\ IF shutdown_event
       THEN /\ urls_lock' = NoWorker
            /\ Finish(w, FALSE, new_urls[w])
            /\ UNCHANGED pending_urls
       ELSE \E l \in todo[w] :
               IF ~HasHttp(l) /\ urljoinRaises(l)
               THEN /\ urls_lock' = ReleasedAfterRaise(w)
                    /\ Finish(w, TRUE, {})
                    /\ UNCHANGED pending_urls
               ELSE LET r == Resolve(wurl[w], l)
                        accept == InScope(r) /\ IsNew(r, crawled_urls, pending_urls)
                        delta == IF accept THEN new_urls[w] \cup {r} ELSE new_urls[w]
                    IN /\ pending_urls' = IF accept THEN pending_urls \cup {r}
                                          ELSE pending_urls
                       /\ IF todo[w] = {l}
                          THEN /\ urls_lock' = NoWorker
                               /\ Finish(w, FALSE, delta)
                          ELSE /\ todo' = [todo EXCEPT ![w] = @ \ {l}]
                               /\ new_urls' = [new_urls EXCEPT ![w] = delta]
                               /\ UNCHANGED <<urls_lock, futures, wpc, wurl,
                                              attempt, wproxy, page>>
    /\ UNCHANGED <<config, disk, run, existing_files, crawled_urls, proxies,
                   invalid_proxies, shutdown_event, proxy_lock, mpc,
                   urls_to_process, yielded, cur, gen, history>>

\* ------------------------------------------------------------ the next run
\* the program is started again with the same arguments on the directory
\* the previous run left: __init__ lists it (line 67) and resets the rest
Rerun ==
    /\ mpc = "done"
    /\ again
    /\ run = "first"
    /\ run' = "second"
    /\ existing_files' = disk
    /\ crawled_urls' = {}
    /\ pending_urls' = {}
    /\ proxies' = proxy_file
    /\ invalid_proxies' = {}
    /\ shutdown_event' = FALSE
    /\ urls_lock' = NoWorker
    /\ proxy_lock' = NoWorker
    /\ mpc' = "crawl"
    /\ urls_to_process' = {}
    /\ futures' = <<>>
    /\ yielded' = {}
    /\ cur' = NoUrl
    /\ gen' = 0
    /\ claimed' = [u \in URLs |-> 0]
    /\ started' = [u \in URLs |-> 0]
    /\ hist' = [u \in URLs |-> <<>>]
    /\ writes' = [u \in URLs |-> 0]
    /\ write_failed' = {}
    /\ failed_proxies' = {}
    /\ late_gets' = [w \in Workers |-> 0]
    /\ gen_at_shutdown' = -1
    /\ prior_shutdown' = shutdown_event
    /\ dispatched' = [u \in URLs |-> 0]
    /\ UNCHANGED <<config, disk, workerv, saved>>

Main ==
    \/ CrawlEnter
    \/ LoopCheck
    \/ Submit
    \/ AsCompleted
    \/ CheckShutdown
    \/ CollectResult
    \/ BatchCompleted
    \/ ExecutorExit

Worker(w) ==
    \/ TaskStart(w)
    \/ ProcessUrlEntry(w)
    \/ Claim(w)
    \/ GetPageCheck(w)
    \/ AcquireProxyLock(w)
    \/ GetProxy(w)
    \/ SessionGet(w)
    \/ HandleException(w)
    \/ RemoveProxy(w)
    \/ WritePage(w)
    \/ AcquireLinks(w)
    \/ LinkStep(w)

Next ==
    \/ Main
    \/ \E w \in Workers : Worker(w)
    \/ SignalHandler
    \/ Rerun

Spec == Init /\ [][Next]_vars

\* the runs whose termination is followed to the end: those of Init, the
\* two-page site without retries
FairInit == Init /\ (site = SitePair => max_retries = 0)

\* the main thread and every worker thread of the pool keep being scheduled;
\* the signal and the next start of the program may or may not come
FairSpec ==
    /\ FairInit
    /\ [][Next]_vars
    /\ WF_vars(Main)
    /\ \A w \in Workers : WF_vars(Worker(w))

\* ------------------------------------------------------------------ claims
Last(h) == h[Len(h)]

\* positions of _process_url after the claim of lines 247-254
AfterClaim == {"g196", "g199", "g163", "g206", "g219", "g230", "w145", "p278",
               "p279"}

\* positions inside _get_page
InGetPage == {"g196", "g199", "g163", "g206", "g219", "g230"}

\* a link the resolution of lines 284-287 does not raise on
Resolvable(l) == HasHttp(l) \/ ~urljoinRaises(l)

\* the in-scope URLs the links of the page of u resolve to
ScopedLinks(u) ==
    {r \in {Resolve(u, l) : l \in {k \in SiteOf(u).links : Resolvable(k)}} :
        startswith(r, start_url)}

RECURSIVE Closure(_, _)
Closure(frontier, seen) ==
    IF frontier \subseteq seen THEN seen
    ELSE Closure(UNION {ScopedLinks(u) : u \in frontier},
                 seen \cup frontier)

\* the in-scope URLs reachable from the start URL through the site's links
Reachable == Closure({start_url}, {})

RECURSIVE SumGets(_)
SumGets(U) ==
    IF U = {} THEN 0
    ELSE LET u == CHOOSE v \in U : TRUE
         IN Len(hist[u]) + SumGets(U \ {u})

\* the future of the task of u in the batch in flight has ended
TaskDone(u) == u \in DOMAIN futures /\ futures[u].state = "done"

\* C1: each URL is claimed at most once in a run: no URL is added to
\* crawled_urls by two tasks, _get_page is entered at most once per URL, at
\* most one write is made per URL, and two workers are never past the claim
\* for the same URL.
C1_ClaimedAtMostOnce ==
    /\ \A u \in URLs : claimed[u] <= 1 /\ started[u] <= 1 /\ writes[u] <= 1
    /\ \A v, w \in Workers :
          v # w /\ wpc[v] \in AfterClaim /\ wpc[w] \in AfterClaim
              => wurl[v] # wurl[w]

\* the start page was claimed, fetched and written, a page linking back to
\* it has been processed, and the other child is being worked on
C1_Witness ==
    /\ site = SiteTree
    /\ claimed[S] = 1 /\ writes[S] = 1
    /\ TaskDone(A) /\ hist[A] = <<"200">> /\ ~futures[A].late
    /\ \E w \in Workers : wurl[w] = B /\ wpc[w] \in AfterClaim

\* C2: in a run from an empty directory without shutdown, when crawl() has
\* returned, the start URL and every in-scope URL linked from a page that
\* was fetched with status 200 have been claimed and fetched.
C2_ReachableAllFetched ==
    (mpc = "done" /\ ~shutdown_event /\ existing_files = {})
        => /\ claimed[start_url] >= 1 /\ started[start_url] >= 1
           /\ \A u \in URLs :
                 (hist[u] # <<>> /\ Last(hist[u]) = "200")
                     => \A r \in ScopedLinks(u) :
                           claimed[r] >= 1 /\ started[r] >= 1

\* C3: in the run after a first run that was not interrupted and left files
\* in the directory, no session.get is made.
C3_RerunNoFetch ==
    (run = "second" /\ ~prior_shutdown /\ existing_files # {})
        => \A u \in URLs : hist[u] = <<>>

\* C3 as amended: in a run that finds the file of the start URL in the
\* directory, no session.get is made, no URL is claimed, nothing is written
\* and no second batch is submitted.
C3_RerunNoFetchWhenStartSaved ==
    (run = "second" /\ _sanitize_url(start_url) \in existing_files)
        => /\ \A u \in URLs : hist[u] = <<>> /\ claimed[u] = 0 /\ writes[u] = 0
           /\ gen <= 1

\* the second run has returned, over a directory with the start page and
\* without one of its children
C3_Witness ==
    /\ run = "second"
    /\ mpc = "done"
    /\ ~shutdown_event
    /\ ~prior_shutdown
    /\ site = SiteTree
    /\ _sanitize_url(S) \in existing_files
    /\ _sanitize_url(A) \in existing_files
    /\ _sanitize_url(B) \notin existing_files
    /\ gen = 1

\* C4: whatever is pending, in a delta, in the frontier or dispatched starts
\* with the start-URL text; and a task that ran its link loop to the end has
\* left every link that resolves to a text starting with the start URL
\* (also one that only shares the prefix) pending or crawled.
C4_PrefixScope ==
    /\ \A u \in pending_urls \cup urls_to_process \cup DOMAIN futures
                \cup UNION {new_urls[w] : w \in Workers}
                \cup UNION {futures[v].urls : v \in DOMAIN futures}
                \cup {wurl[w] : w \in {v \in Workers : wpc[v] # "idle"}} :
          startswith(u, start_url)
    /\ \A u \in DOMAIN futures :
          (/\ futures[u].state = "done"
           /\ ~futures[u].exc /\ ~futures[u].late
           /\ hist[u] # <<>> /\ Last(hist[u]) = "200")
              => ScopedLinks(u) \subseteq pending_urls \cup crawled_urls

\* the sibling that shares the prefix is being fetched, after pages with
\* out-of-scope links were processed
C4_Witness ==
    /\ site = SiteTree
    /\ X \in pending_urls
    /\ O \notin pending_urls
    /\ \E w \in Workers : wurl[w] = X /\ wpc[w] = "g206"

\* C5: no call of _get_proxy returns a proxy through which an attempt has
\* raised a transport exception earlier in the run.
C5_FailedProxyNeverChosen ==
    [][\A w \in Workers :
          (wpc[w] = "g163" /\ wpc'[w] = "g206")
              => wproxy'[w] \notin failed_proxies]_vars

\* C6: no session.get is started in a state where shutdown_event is set.
C6_NoGetAfterFlag ==
    [][\A u \in URLs : Len(hist'[u]) > Len(hist[u]) => ~shutdown_event]_vars

\* C6 as amended: every session.get follows a check of the flag, in the same
\* attempt, that found it clear; so a worker thread starts at most one GET
\* in states where the flag is set.
C6_AtMostOneLateGet == \A w \in Workers : late_gets[w] <= 1

\* a GET was started with the flag set, and its worker then stopped at the
\* check of the next attempt
C6_Witness ==
    \E w \in Workers :
        /\ late_gets[w] = 1
        /\ shutdown_event
        /\ wpc[w] = "idle"
        /\ \E u \in URLs : Len(hist[u]) = 1 /\ hist[u][1] = "exc"
                              /\ TaskDone(u) /\ max_retries >= 1

\* C7: when the flag is set while a generation is in progress, no further
\* batch is submitted, and the delta of a task that ends after the flag was
\* set does not enter the next frontier.
C7_NoNewGeneration ==
    /\ gen_at_shutdown # -1 => gen = gen_at_shutdown
    /\ \A u \in DOMAIN futures :
          futures[u].late => futures[u].urls \cap urls_to_process = {}

\* crawl() has returned after a shutdown in the middle of a generation, with
\* a delta collected before the flag and one returned after it
C7_Witness ==
    /\ mpc = "done"
    /\ gen_at_shutdown = 2
    /\ urls_to_process # {}
    /\ \E u \in DOMAIN futures : futures[u].late /\ futures[u].state = "done"

\* C8: in a run from an empty directory, without shutdown, proxies or write
\* failures, in which every GET returned 200 with a body, the number of GETs
\* and the number of files are the number of reachable in-scope URLs.
C8_CountsEqualReachable ==
    (/\ mpc = "done" /\ ~shutdown_event /\ existing_files = {}
     /\ proxy_file = {} /\ write_failed = {}
     /\ \A u \in URLs : /\ \A i \in 1..Len(hist[u]) : hist[u][i] = "200"
                        /\ hist[u] # <<>> => ~SiteOf(u).empty)
        => /\ SumGets(URLs) = Cardinality(Reachable)
           /\ Cardinality(disk) = Cardinality(Reachable)

\* C9: a status other than 200 is the last attempt for its URL; the URL stays
\* crawled, no file is written for it, its task returns the empty delta, and
\* the step that receives the status moves no proxy.
C9_Non200Final ==
    /\ [](\A u \in URLs : \A i \in 1..Len(hist[u]) :
             hist[u][i] = "non200"
                 => /\ i = Len(hist[u])
                    /\ u \in crawled_urls
                    /\ writes[u] = 0
                    /\ u \in DOMAIN futures
                          => /\ futures[u].state = "done"
                             /\ ~futures[u].exc
                             /\ futures[u].urls = {})
    /\ [][\A u \in URLs :
             (Len(hist'[u]) = Len(hist[u]) + 1 /\ Last(hist'[u]) = "non200")
                 => UNCHANGED <<proxies, invalid_proxies>>]_vars

\* a second attempt got a status other than 200 while retries were left
C9_Witness ==
    \E u \in URLs :
        /\ max_retries >= 1
        /\ Len(hist[u]) >= 1
        /\ Len(hist[u]) < max_retries + 1
        /\ Last(hist[u]) = "non200"
        /\ TaskDone(u)
        /\ proxies # {}

\* C10: a URL gets at most max_retries + 1 attempts, made by one worker; a
\* 200 is the last attempt; a task that ended without shutdown after
\* nothing but transport failures made exactly max_retries + 1 attempts and
\* returned no links.
C10_BoundedAttempts ==
    /\ \A u \in URLs :
          /\ Len(hist[u]) <= max_retries + 1
          /\ \A i \in 1..Len(hist[u]) : hist[u][i] = "200" => i = Len(hist[u])
          /\ (/\ TaskDone(u) /\ ~futures[u].late /\ claimed[u] >= 1
              /\ \A i \in 1..Len(hist[u]) : hist[u][i] = "exc")
                 => /\ Len(hist[u]) = max_retries + 1
                    /\ futures[u].urls = {}
    /\ \A v, w \in Workers :
          v # w /\ wpc[v] \in InGetPage /\ wpc[w] \in InGetPage
              => wurl[v] # wurl[w]

\* every attempt for a URL failed, with retries configured, while the other
\* worker was fetching
C10_Witness ==
    \E u \in URLs :
        /\ max_retries >= 1
        /\ TaskDone(u) /\ ~futures[u].late
        /\ Len(hist[u]) = max_retries + 1
        /\ \A i \in 1..Len(hist[u]) : hist[u][i] = "exc"
        /\ \E w \in Workers : wpc[w] \in InGetPage

\* C11: one file per successfully fetched page: when crawl() has returned
\* in a run without shutdown and without a failed write, every URL for
\* which an attempt returned HTTP 200 has the file named by its sanitized
\* URL in the output directory.
C11_FilePerFetchedPage ==
    (mpc = "done" /\ ~shutdown_event /\ write_failed = {})
        => \A u \in URLs :
              (\E i \in 1..Len(hist[u]) : hist[u][i] = "200")
                  => _sanitize_url(u) \in disk

\* C12: generation N+1 never starts before generation N is resolved: when
\* crawl() is about to submit a batch (line 319) no future of the batch
\* before it is pending or running and no worker is inside _process_url;
\* a worker inside _process_url always works on a running future of the
\* batch in flight. This holds with and without a shutdown request.
C12_GenerationsDoNotOverlap ==
    /\ mpc = "m319" =>
          /\ Unfinished = {}
          /\ \A w \in Workers : wpc[w] = "idle"
    /\ \A w \in Workers :
          wpc[w] # "idle" =>
              /\ wurl[w] \in DOMAIN futures
              /\ futures[wurl[w]].state = "running"

\* the second generation is about to be submitted with two URLs after the
\* first one delivered its result
C12_Witness ==
    /\ mpc = "m319"
    /\ gen = 1
    /\ Cardinality(urls_to_process) = 2
    /\ DOMAIN futures = {start_url}
    /\ futures[start_url].state = "done"

\* C13: the proxy pool is a partition of the loaded proxies: the trusted
\* set and the invalid set are disjoint and their union is the set read
\* from the proxy file; within a run the trusted set never gains and the
\* invalid set never loses a member, also when two workers report the same
\* proxy one after the other.
C13_ProxyPartition ==
    /\ [](/\ proxies \cap invalid_proxies = {}
          /\ proxies \cup invalid_proxies = proxy_file)
    /\ [][run' = run => /\ proxies' \subseteq proxies
                        /\ invalid_proxies \subseteq invalid_proxies']_vars

\* a worker is about to report a proxy that the other worker, which failed
\* through the same proxy, has already moved to the invalid set
C13_Witness ==
    \E w \in Workers :
        /\ wpc[w] = "g219"
        /\ ~Exhausted(attempt[w], max_retries)
        /\ wproxy[w] \in invalid_proxies
        /\ proxies # {}

\* C14: a link that cannot be resolved is dropped silently: no task ends
\* with an exception; a task that fetched its page and ended without
\* shutdown has every in-scope URL of the page's other links in
\* pending_urls or crawled_urls; and when crawl() returns without shutdown
\* every URL of pending_urls was dispatched in some generation.
C14_BadLinkDropped ==
    /\ \A u \in DOMAIN futures : ~futures[u].exc
    /\ \A u \in URLs :
          (/\ TaskDone(u) /\ ~futures[u].late
           /\ hist[u] # <<>> /\ Last(hist[u]) = "200" /\ ~SiteOf(u).empty)
              => ScopedLinks(u) \subseteq pending_urls \cup crawled_urls
    /\ (mpc = "done" /\ ~shutdown_event)
          => \A u \in pending_urls : dispatched[u] >= 1

\* C15: crawl() always terminates normally: whenever crawl() has not
\* returned it eventually returns, be it because the frontier ran empty or
\* because the shutdown flag was set at any point, and when it has returned
\* every worker is idle, no future is pending or running and urls_lock is
\* free.
C15_CrawlTerminates ==
    /\ (mpc # "done") ~> (mpc = "done")
    /\ [](mpc = "done" => /\ \A w \in Workers : wpc[w] = "idle"
                          /\ Unfinished = {}
                          /\ urls_lock = NoWorker)

\* crawl() returned after a shutdown request that came while two tasks of
\* the second generation were running
C15_Witness ==
    /\ mpc = "done"
    /\ shutdown_event
    /\ gen_at_shutdown = 2
    /\ \A u \in DOMAIN futures : futures[u].late

\* the delta of the task of u: returned, or being built by worker w
Returned(u) == IF u \in DOMAIN futures THEN futures[u].urls ELSE {}

Building(w) == IF wpc[w] = "p279" THEN new_urls[w] ELSE {}

\* C16: the accept-new-pending step returns exactly the delta: the deltas
\* of different tasks are disjoint, so no two workers return the same URL;
\* every URL of a delta is in pending_urls; and every URL that was added to
\* pending_urls is in the delta of a task of the batch in flight, or was
\* taken from a delta into the frontier or a dispatched batch.
C16_ExactDelta ==
    /\ \A u, v \in DOMAIN futures : u # v => Returned(u) \cap Returned(v) = {}
    /\ \A v, w \in Workers : v # w => Building(v) \cap Building(w) = {}
    /\ \A w \in Workers : \A u \in DOMAIN futures :
          u # wurl[w] => Building(w) \cap Returned(u) = {}
    /\ \A u \in DOMAIN futures : Returned(u) \subseteq pending_urls
    /\ \A w \in Workers : Building(w) \subseteq pending_urls
    /\ \A r \in pending_urls :
          \/ dispatched[r] >= 1
          \/ r \in urls_to_process
          \/ \E u \in DOMAIN futures : r \in Returned(u)
          \/ \E w \in Workers : r \in Building(w)

\* the same URL, or the same URL under another scheme
SameButScheme(u, v) == u = v \/ (u[1] # v[1] /\ Tail(u) = Tail(v))

\* C17: _sanitize_url is collision-free, so that the test of line 250 is
\* true only for a URL that a prior run saved: a task that ended without
\* shutdown and without claiming its URL, because the file name of the URL
\* is in existing_files, worked on a URL whose page was written to the
\* directory.
C17_ExistingMeansSaved ==
    \A u \in DOMAIN futures :
        (/\ TaskDone(u) /\ ~futures[u].late /\ claimed[u] = 0
         /\ _sanitize_url(u) \in existing_files)
            => u \in saved

\* C17 as amended: the file name is the encoded text after the first "://",
\* so it is collision-free among URLs of one scheme only. A dispatched URL
\* shares its file name with no other URL the run knows and with no URL
\* saved to the directory, except the same URL under another scheme; and
\* when the test of line 250 refuses the claim, the directory holds the page
\* of that URL or of the same URL under another scheme.
C17_SameNameSameRest ==
    \A u \in DOMAIN futures :
        LET name == _sanitize_url(u)
        IN /\ \A v \in (saved \cup crawled_urls \cup pending_urls) \ {u} :
                 name = _sanitize_url(v) => SameButScheme(u, v)
           /\ (/\ TaskDone(u) /\ ~futures[u].late /\ claimed[u] = 0
               /\ name \in existing_files)
                  => \E v \in saved : SameButScheme(u, v)

\* the first run over https finds the file that a crawl over http left for
\* its start page and refuses the claim of the start URL
C17_Witness ==
    /\ run = "first"
    /\ TaskDone(start_url)
    /\ claimed[start_url] = 0
    /\ ~futures[start_url].late
    /\ _sanitize_url(start_url) \in existing_files
    /\ start_url \notin saved
    /\ Shttp \in saved

C19_StartFileEndsRun ==
    _sanitize_url(start_url) \in existing_files
        => /\ \A u \in URLs :
                 /\ started[u] = 0
                 /\ hist[u] = <<>>
                 /\ writes[u] = 0
                 /\ dispatched[u] = IF u = start_url /\ gen = 1 THEN 1 ELSE 0
           /\ disk = existing_files
           /\ crawled_urls = {}
           /\ pending_urls = {}
           /\ gen <= 1
           /\ (mpc = "done" /\ ~shutdown_event)
                 => gen = 1 /\ urls_to_process = {}

\* the second run returned after its first generation, without shutdown,
\* over the directory of an interrupted run that holds the start page only
C19_Witness ==
    /\ run = "second"
    /\ mpc = "done"
    /\ ~shutdown_event
    /\ prior_shutdown
    /\ gen = 1
    /\ existing_files = {_sanitize_url(start_url)}
    /\ Cardinality(Reachable) > 1

\* C20: each URL is dispatched to a worker at most once per run: no URL is
\* submitted in two generations, and a URL of the frontier or of a delta of
\* the batch in flight was never submitted before. This includes a URL
\* whose claim was refused because its file exists, which never enters
\* crawled_urls, and the start URL when a page links back to it.
C20_DispatchedAtMostOnce ==
    /\ \A u \in URLs : dispatched[u] <= 1
    /\ \A u \in urls_to_process : dispatched[u] = 0
    /\ \A u \in DOMAIN futures : \A r \in futures[u].urls : dispatched[r] = 0
    /\ \A u \in DOMAIN futures : dispatched[u] = 1

\* the second run fetched a page that links to a URL of its own generation
\* whose claim was refused for its file, and to the start URL, and returned
C20_Witness ==
    \E u, r \in URLs :
        /\ run = "second"
        /\ mpc = "done"
        /\ ~shutdown_event
        /\ u # start_url /\ r # start_url /\ u # r
        /\ {r, start_url} \subseteq ScopedLinks(u)
        /\ claimed[u] = 1 /\ hist[u] = <<"200">>
        /\ _sanitize_url(r) \in existing_files
        /\ claimed[r] = 0
        /\ dispatched[r] = 1
        /\ dispatched[start_url] = 1

\* worker w stands before a `with` of a lock that another thread holds
WaitsForUrlsLock(w) == wpc[w] \in {"p247", "p278"}

WaitsForProxyLock(w) ==
    \/ wpc[w] = "g199"
    \/ /\ wpc[w] = "g219"
       /\ ~Exhausted(attempt[w], max_retries)
       /\ wproxy[w] # NoProxy

Blocked(w) ==
    \/ WaitsForUrlsLock(w) /\ urls_lock # NoWorker
    \/ WaitsForProxyLock(w) /\ proxy_lock # NoWorker

\* C21: the lock discipline is deadlock-free: no thread holds urls_lock
\* and proxy_lock at the same time; the holder of either lock is inside
\* that lock's critical section, where it waits for no lock; a worker
\* about to call session.get holds neither lock; the main thread finds
\* urls_lock free at its batch summary; and in no state is every busy
\* worker waiting for a lock.
C21_NoLockDeadlock ==
    /\ \A w \in Workers :
          /\ ~(urls_lock = w /\ proxy_lock = w)
          /\ urls_lock = w => wpc[w] = "p279"
          /\ proxy_lock = w => wpc[w] \in {"g163", "g230"}
          /\ wpc[w] = "g206" => urls_lock # w /\ proxy_lock # w
    /\ urls_lock \in Workers \cup {NoWorker}
    /\ proxy_lock \in Workers \cup {NoWorker}
    /\ (mpc = "m344" /\ ~shutdown_event) => urls_lock = NoWorker
    /\ (\E w \in Workers : wpc[w] # "idle")
          => \E w \in Workers : wpc[w] # "idle" /\ ~Blocked(w)

\* a worker that fetched its page waits for urls_lock while the other
\* worker holds it in its link loop
C21_Witness ==
    \E v, w \in Workers :
        /\ v # w
        /\ urls_lock = v
        /\ wpc[v] = "p279"
        /\ wpc[w] = "p278"
        /\ Blocked(w)

====
